---- MODULE Spec2Model ----
(***************************************************************************)
(* Model of app/src/lib/git/stash.ts: the stash entries GitHub Desktop     *)
(* keeps on top of git's refs/stash reflog.                                *)
(*                                                                         *)
(* Text is a sequence of symbols.  A symbol is one character, except that  *)
(* the literal `!!GitHub_Desktop`, a reflog selector `stash@{n}` and a     *)
(* commit hash are one symbol each: the code never looks inside them.      *)
(* An optional value (T | null) is the empty sequence or <<value>>.        *)
(***************************************************************************)
EXTENDS Integers, Sequences, FiniteSets, TLC

VARIABLES
    stack,       \* refs/stash reflog, newest first: [sha, msg]
    nextSha,     \* the next commit the store creates
    pc,          \* where the running call is suspended (an await), or "idle"
    call,        \* the running call: [op, arg]
    entry,       \* entryToDelete / stashToPop of the running call
    cmds,        \* git commands the running call has issued so far
    before,      \* the stack when the running call started
    interfered,  \* somebody else changed the store while the call ran
    last,        \* the call that returned last, nothing after it
    prev,        \* how the same drop, made right before this one, went
    input,       \* argument of a pure function under test
    output       \* what the pure function returned

vars == <<stack, nextSha, pc, call, entry, cmds, before, interfered, last,
          prev, input, output>>

(***************************************************************************)
(* Bounds                                                                  *)
(***************************************************************************)
MaxStack == 3
MaxSha == 3
MaxLen == 5
MaxRecords == 3

(***************************************************************************)
(* Symbols                                                                 *)
(***************************************************************************)
DesktopStashEntryMarker == "!!GitHub_Desktop"
NUL == "NUL"
LS == "LS"
US == "US"
Null == <<>>
Some(x) == <<x>>

\* JavaScript's `.` (without the s flag) matches anything but a line
\* terminator; LS stands for them (U+2028 is legal in a git branch name).
LF == "LF"
LineTerminators == {LF, LS}

Min(S) == CHOOSE x \in S : \A y \in S : x <= y

\* All sequences over S of length at most n.
RECURSIVE SeqsUpTo(_, _)
SeqsUpTo(S, n) ==
    IF n = 0 THEN {<<>>}
    ELSE LET shorter == SeqsUpTo(S, n - 1)
         IN shorter \cup {Append(s, x) : s \in shorter, x \in S}

\* String.prototype.split with a one-character separator.
RECURSIVE split(_, _)
split(s, sep) ==
    IF \E i \in 1..Len(s) : s[i] = sep
    THEN LET i == Min({j \in 1..Len(s) : s[j] = sep})
         IN <<SubSeq(s, 1, i - 1)>> \o split(SubSeq(s, i + 1, Len(s)), sep)
    ELSE <<s>>

(***************************************************************************)
(* Entry codec                                                             *)
(***************************************************************************)
\* The start positions at which /!!GitHub_Desktop<(.+)>$/ matches: the
\* marker, `<`, one or more characters that are no line terminator, and a
\* `>` that is the last character of the message.
MatchStarts(message) ==
    {i \in 1..Len(message) :
        /\ message[i] = DesktopStashEntryMarker
        /\ i + 1 <= Len(message) /\ message[i + 1] = "<"
        /\ Len(message) >= i + 3
        /\ message[Len(message)] = ">"
        /\ \A k \in (i + 2)..(Len(message) - 1) :
              message[k] \notin LineTerminators}

\* The expression without its `$`: the greedy group runs up to the last `>`
\* it can reach.
desktopStashEntryMessageReNoAnchor(message) ==
    LET ends(i) == {e \in (i + 3)..Len(message) :
                      /\ message[e] = ">"
                      /\ \A k \in (i + 2)..(e - 1) :
                            message[k] \notin LineTerminators}
        starts == {i \in 1..Len(message) :
                      /\ message[i] = DesktopStashEntryMarker
                      /\ i + 1 <= Len(message) /\ message[i + 1] = "<"
                      /\ ends(i) # {}}
    IN IF starts = {} THEN Null
       ELSE LET i == Min(starts)
                e == CHOOSE x \in ends(i) : \A y \in ends(i) : y <= x
            IN Some(SubSeq(message, i + 2, e - 1))

\* desktopStashEntryMessageRe.exec(message): null, or <<match[1]>> of the
\* leftmost match; the greedy group runs up to the final `>`.
desktopStashEntryMessageRe(message) ==
    IF MatchStarts(message) = {} THEN Null
    ELSE Some(SubSeq(message, Min(MatchStarts(message)) + 2, Len(message) - 1))

extractBranchFromMessage(message) ==
    LET match == desktopStashEntryMessageRe(message)
    IN IF match = Null \/ Len(match[1]) = 0 THEN Null ELSE Some(match[1])

createDesktopStashMessage(branchName) ==
    <<DesktopStashEntryMarker, "<">> \o branchName \o <<">">>

(***************************************************************************)
(* Stash lister                                                            *)
(***************************************************************************)
\* git() of ./core rejects (throws GitError) unless the exit code is one
\* of successExitCodes; without the option only 0 is a success.
DefaultSuccessExitCodes == {0}
Throws(result, successExitCodes) == result.exitCode \notin successExitCodes

delimiterString == US

\* The loop body without its `branchName !== null`.
EntryOfRecordAnyMessage(record) ==
    LET pieces == split(record, delimiterString)
    IN IF Len(pieces) = 3
       THEN LET branchName == extractBranchFromMessage(pieces[3])
            IN <<[name |-> pieces[1],
                  branchName |-> IF branchName = Null THEN <<>>
                                 ELSE branchName[1],
                  stashSha |-> pieces[2]]>>
       ELSE <<>>

\* The loop body taking a record of three pieces or more.
EntryOfRecordAtLeastThree(record) ==
    LET pieces == split(record, delimiterString)
    IN IF Len(pieces) >= 3
       THEN LET branchName == extractBranchFromMessage(pieces[3])
            IN IF branchName # Null
               THEN <<[name |-> pieces[1], branchName |-> branchName[1],
                       stashSha |-> pieces[2]]>>
               ELSE <<>>
       ELSE <<>>

\* The loop body of getStashes: the entries one raw record contributes.
EntryOfRecord(record) ==
    LET pieces == split(record, delimiterString)
    IN IF Len(pieces) = 3
       THEN LET branchName == extractBranchFromMessage(pieces[3])
            IN IF branchName # Null
               THEN <<[name |-> pieces[1], branchName |-> branchName[1],
                       stashSha |-> pieces[2]]>>
               ELSE <<>>
       ELSE <<>>

\* The loop with unshift for push.
RECURSIVE desktopStashEntriesUnshift(_)
desktopStashEntriesUnshift(entries) ==
    IF entries = <<>> THEN <<>>
    ELSE desktopStashEntriesUnshift(Tail(entries))
            \o EntryOfRecord(Head(entries))

RECURSIVE desktopStashEntries(_)
desktopStashEntries(entries) ==
    IF entries = <<>> THEN <<>>
    ELSE EntryOfRecord(Head(entries)) \o desktopStashEntries(Tail(entries))

\* The split without its filter.
RawRecordsUnfiltered(stdout) == split(stdout, NUL)

RawRecords(stdout) == SelectSeq(split(stdout, NUL), LAMBDA s : s # <<>>)

\* getStashes without its `exitCode === 128` return.
getStashesNo128(result) ==
    IF Throws(result, {0, 128})
    THEN [raised |-> TRUE, desktopEntries |-> <<>>, stashEntryCount |-> 0]
    ELSE LET entries == RawRecords(result.stdout)
         IN [raised |-> FALSE,
             desktopEntries |-> desktopStashEntries(entries),
             stashEntryCount |-> Len(entries) - 1]

\* getStashes, from the result of the reflog query on.  raised: git()
\* rejected, and getStashes with it.
getStashes(result) ==
    IF Throws(result, {0, 128})
    THEN [raised |-> TRUE, desktopEntries |-> <<>>, stashEntryCount |-> 0]
    ELSE IF result.exitCode = 128
    THEN [raised |-> FALSE, desktopEntries |-> <<>>, stashEntryCount |-> 0]
    ELSE LET entries == RawRecords(result.stdout)
         IN [raised |-> FALSE,
             desktopEntries |-> desktopStashEntries(entries),
             stashEntryCount |-> Len(entries) - 1]

\* Array.prototype.find(...) || null
\* hits: the indices of the elements the predicate holds of.
find(entries, hits) ==
    IF hits = {} THEN Null ELSE Some(entries[Min(hits)])

\* The lookup taking the last entry of the branch in the list, not the
\* first.
lastDesktopStashEntryOldest(stash, branchName) ==
    LET hits == {i \in 1..Len(stash.desktopEntries) :
                    stash.desktopEntries[i].branchName = branchName}
    IN IF hits = {} THEN Null
       ELSE Some(stash.desktopEntries[CHOOSE x \in hits :
                                         \A y \in hits : y <= x])

\* The tail of getLastDesktopStashEntryForBranch, after its getStashes.
lastDesktopStashEntryForBranch(stash, branchName) ==
    find(stash.desktopEntries,
         {i \in 1..Len(stash.desktopEntries) :
             stash.desktopEntries[i].branchName = branchName})

\* The lookup with a predicate that holds of every entry.
stashEntryFirst(stash, sha) ==
    find(stash.desktopEntries, 1..Len(stash.desktopEntries))

\* The tail of getStashEntryMatchingSha, after its getStashes.
stashEntryMatchingSha(stash, sha) ==
    find(stash.desktopEntries,
         {i \in 1..Len(stash.desktopEntries) :
             stash.desktopEntries[i].stashSha = sha})

(***************************************************************************)
(* The store: git's stash stack, as the commands of stash.ts see it        *)
(***************************************************************************)
StashNames == <<"stash@{0}", "stash@{1}", "stash@{2}", "stash@{3}",
                "stash@{4}", "stash@{5}", "stash@{6}", "stash@{7}">>
ShaNames == <<"c1", "c2", "c3", "c4", "c5", "c6", "c7", "c8">>

\* %gs of a stash made by `git stash push -m message`.
OnBranch == "On branch: "
Subject(message) == <<OnBranch>> \o message

RECURSIVE ReflogRecords(_, _)
ReflogRecords(s, n) ==
    IF s = <<>> THEN <<>>
    ELSE <<StashNames[n + 1], US, ShaNames[Head(s).sha], US>>
            \o Head(s).msg \o <<NUL>> \o ReflogRecords(Tail(s), n + 1)

\* git log -g -z --pretty=%gd%x1F%H%x1F%gs refs/stash: one record for each
\* stash, each ended by NUL; exit code 128 when there is no refs/stash.
GitLogStash(s) ==
    IF s = <<>>
    THEN [exitCode |-> 128, stdout |-> <<>>, stderr |-> <<"fatal: ">>]
    ELSE [exitCode |-> 0, stdout |-> ReflogRecords(s, 0), stderr |-> <<>>]

\* The index in s that a selector names, 0 when it names none.
Resolve(name, s) ==
    IF \E i \in 1..Len(s) : name = <<StashNames[i]>>
    THEN CHOOSE i \in 1..Len(s) : name = <<StashNames[i]>>
    ELSE 0

RemoveAt(s, i) == SubSeq(s, 1, i - 1) \o SubSeq(s, i + 1, Len(s))

(***************************************************************************)
(* Stash mutator: what each function does between two git commands        *)
(***************************************************************************)
ErrorTag == "error: "

\* The pattern without its m flag: /^error: / .exec(stderr) !== null
errorPrefixReNoMultiline(stderr) ==
    stderr # <<>> /\ stderr[1] = ErrorTag

\* /^error: /m .exec(stderr) !== null
errorPrefixRe(stderr) ==
    \E i \in 1..Len(stderr) :
        /\ stderr[i] = ErrorTag
        /\ (i = 1 \/ stderr[i - 1] \in LineTerminators)

\* createDesktopStashEntry, after `git stash push -m message` returned.
createAfterPush(result) ==
    IF Throws(result, {0, 1}) THEN "raise"
    ELSE IF result.exitCode = 1 /\ errorPrefixRe(result.stderr) THEN "raise"
    ELSE "return"

\* The reference of the newest stash, whatever entry was located.
dropAfterLocateTop(entryToDelete) ==
    IF entryToDelete # Null THEN Some(<<StashNames[1]>>) ELSE Null

\* dropDesktopStashEntry, after getStashEntryMatchingSha returned: the
\* reference it hands to `git stash drop`, if any.
dropAfterLocate(entryToDelete) ==
    IF entryToDelete # Null THEN Some(entryToDelete[1].name) ELSE Null

\* popStashEntry, after getStashEntryMatchingSha returned.
popAfterLocate(stashToPop) ==
    IF stashToPop # Null THEN Some(stashToPop[1].name) ELSE Null

\* popStashEntry without its dropDesktopStashEntry.
popAfterPopNoDrop(result) ==
    IF Throws(result, {0, 1}) THEN "raise"
    ELSE IF result.exitCode = 1
    THEN IF Len(result.stderr) > 0 THEN "raise" ELSE "return"
    ELSE "return"

\* popStashEntry without its look at stderr.
popAfterPopAnyStderr(result) ==
    IF Throws(result, {0, 1}) THEN "raise"
    ELSE IF result.exitCode = 1 THEN "drop"
    ELSE "return"

\* popStashEntry, after `git stash pop --quiet name` returned.  Its
\* expectedErrors count only for an exit code outside successExitCodes,
\* which `git stash pop` gives on a fatal error, not on a conflict.
popAfterPop(result) ==
    IF Throws(result, {0, 1}) THEN "raise"
    ELSE IF result.exitCode = 1
    THEN IF Len(result.stderr) > 0 THEN "raise" ELSE "drop"
    ELSE "return"

(***************************************************************************)
(* State                                                                   *)
(***************************************************************************)
NoResult == [exitCode |-> 0, stdout |-> <<>>, stderr |-> <<>>]
NoCall == [op |-> "none", arg |-> Null, git |-> NoResult]
NoLast ==
    [op |-> "none", arg |-> Null, outcome |-> "none", value |-> Null,
     cmds |-> <<>>, entry |-> Null, before |-> <<>>, interfered |-> FALSE,
     git |-> NoResult]

NoOutput ==
    [fn |-> "none", message |-> <<>>, branchName |-> Null, raised |-> FALSE,
     desktopEntries |-> <<>>, stashEntryCount |-> 0]

Cmd(c, ref) == [cmd |-> c, ref |-> ref]
LogCmd == Cmd("log", Null)

BranchNames == {<<"a">>, <<"b">>}
ForeignMessages == {<<"w">>}
ShaArgs == {<<ShaNames[i]>> : i \in 1..MaxSha}

StoreIdle ==
    /\ pc = "idle" /\ call = NoCall /\ entry = Null /\ cmds = <<>>
    /\ before = <<>> /\ interfered = FALSE

Init ==
    /\ stack = <<>>
    /\ nextSha = 1
    /\ StoreIdle
    /\ last = NoLast
    /\ prev = "none"
    /\ input = <<>>
    /\ output = NoOutput

\* How the call that returned right before this one went, when nobody else
\* touched the store since that call began and the two are either
\* dropDesktopStashEntry twice for the same hash, or createDesktopStashEntry
\* followed by getLastDesktopStashEntryForBranch for the same branch;
\* "none" otherwise.
PrevOf(op, arg) ==
    IF /\ \/ op = "drop" /\ last.op = "drop"
          \/ op = "find" /\ last.op = "create"
       /\ last.arg = arg
       /\ ~last.interfered
    THEN last.outcome
    ELSE "none"

\* A call begins: it suspends at its first await that touches the store.
Begin(op, arg, at, ent, issued) ==
    /\ pc' = at
    /\ call' = [op |-> op, arg |-> arg, git |-> NoResult]
    /\ entry' = ent
    /\ cmds' = issued
    /\ before' = stack
    /\ interfered' = FALSE
    /\ prev' = PrevOf(op, arg)
    /\ last' = NoLast

\* A call that began and returned (or raised) in one step.
Atomic(op, arg, outcome, value, issued) ==
    /\ last' = [op |-> op, arg |-> arg, outcome |-> outcome, value |-> value,
                cmds |-> issued, entry |-> Null, before |-> stack,
                interfered |-> FALSE, git |-> NoResult]
    /\ prev' = PrevOf(op, arg)
    /\ UNCHANGED <<pc, call, entry, cmds, before, interfered>>

\* The running call returns (or raises).
Return(outcome, issued, result) ==
    /\ last' = [op |-> call.op, arg |-> call.arg, outcome |-> outcome,
                value |-> Null, cmds |-> issued, entry |-> entry,
                before |-> before, interfered |-> interfered,
                git |-> result]
    /\ pc' = "idle" /\ call' = NoCall /\ entry' = Null /\ cmds' = <<>>
    /\ before' = <<>> /\ interfered' = FALSE
    /\ UNCHANGED prev

(***************************************************************************)
(* What git answers                                                        *)
(***************************************************************************)
Result(code, err) == [exitCode |-> code, stdout |-> <<>>, stderr |-> err]

\* git ls-files -z --others --exclude-standard, then git add ...
LsFilesResults ==
    {[exitCode |-> 0, stdout |-> <<>>, stderr |-> <<>>],
     [exitCode |-> 0, stdout |-> <<"f", NUL>>, stderr |-> <<>>],
     [exitCode |-> 128, stdout |-> <<>>, stderr |-> <<"fatal: ">>]}
AddResults == {Result(0, <<>>), Result(128, <<"fatal: ">>)}

\* git stash push -m message: saved (0), nothing to save (0), saved with
\* complaints (1, no error line), refused (1 with an error line, or 128).
PushStderr ==
    {<<>>, <<"warning: ", ErrorTag>>, <<ErrorTag>>,
     <<"warning: ", LF, ErrorTag>>}
PushOutcomes ==
    {[result |-> Result(0, <<>>), saved |-> TRUE],
     [result |-> Result(0, <<>>), saved |-> FALSE],
     [result |-> Result(128, <<"fatal: ">>), saved |-> FALSE]}
    \cup {[result |-> Result(1, err), saved |-> ~errorPrefixRe(err)] :
             err \in PushStderr}

\* git stash drop name, name resolving to index i (0: to nothing).
DropOutcomes(i) ==
    IF i = 0 THEN {[result |-> Result(1, <<ErrorTag>>), removed |-> FALSE]}
    ELSE {[result |-> Result(0, <<>>), removed |-> TRUE],
          [result |-> Result(1, <<ErrorTag>>), removed |-> FALSE]}

\* git stash pop --quiet name: applied and dropped (0), or applied with
\* conflicts and kept (1), or not applied (1 with an error, 128).
PopOutcomes(i) ==
    IF i = 0 THEN {[result |-> Result(1, <<ErrorTag>>), removed |-> FALSE]}
    ELSE {[result |-> Result(0, <<>>), removed |-> TRUE],
          [result |-> Result(1, <<>>), removed |-> FALSE],
          [result |-> Result(1, <<ErrorTag>>), removed |-> FALSE],
          [result |-> Result(128, <<"fatal: ">>), removed |-> FALSE]}

Pushed(msg, who) == <<[sha |-> nextSha, msg |-> Subject(msg), by |-> who]>>
CanPush == Len(stack) < MaxStack /\ nextSha <= MaxSha

(***************************************************************************)
(* The calls                                                               *)
(***************************************************************************)
Outcome(raised) == IF raised THEN "raised" ELSE "ok"

\* getStashes
ListStashes ==
    /\ pc = "idle"
    /\ \E stash \in {getStashes(GitLogStash(stack))} :
          Atomic("list", Null, Outcome(stash.raised), Some(stash), <<LogCmd>>)
    /\ UNCHANGED <<stack, nextSha, input, output>>

\* A lookup that takes the stash it finds off the stack.
FindForBranchTaking(branchName) ==
    /\ pc = "idle"
    /\ \E stash \in {getStashes(GitLogStash(stack))} :
       \E found \in {IF stash.raised THEN Null
                     ELSE lastDesktopStashEntryForBranch(stash, branchName)} :
          /\ Atomic("find", branchName, Outcome(stash.raised),
                    IF stash.raised THEN Null ELSE Some(found),
                    IF found = Null THEN <<LogCmd>>
                    ELSE <<LogCmd, Cmd("pop", found[1].name)>>)
          /\ stack' = IF found = Null THEN stack
                      ELSE RemoveAt(stack, Resolve(found[1].name, stack))
    /\ UNCHANGED <<nextSha, input, output>>

\* getLastDesktopStashEntryForBranch
FindForBranch(branchName) ==
    /\ pc = "idle"
    /\ \E stash \in {getStashes(GitLogStash(stack))} :
          Atomic("find", branchName, Outcome(stash.raised),
                 IF stash.raised THEN Null
                 ELSE Some(lastDesktopStashEntryForBranch(stash, branchName)),
                 <<LogCmd>>)
    /\ UNCHANGED <<stack, nextSha, input, output>>

\* stageUntrackedFiles: the commands it issues and whether it raises.
stageUntrackedFiles(ls, add) ==
    IF Throws(ls, DefaultSuccessExitCodes)
    THEN [raised |-> TRUE, cmds |-> <<Cmd("ls-files", Null)>>]
    ELSE IF Len(ls.stdout) > 0
    THEN [raised |-> Throws(add, DefaultSuccessExitCodes),
          cmds |-> <<Cmd("ls-files", Null), Cmd("add", Null)>>]
    ELSE [raised |-> FALSE, cmds |-> <<Cmd("ls-files", Null)>>]

\* createDesktopStashEntry up to its `git stash push`
CreateStage(branchName) ==
    /\ pc = "idle"
    /\ \E staged \in {stageUntrackedFiles(ls, add) :
                          ls \in LsFilesResults, add \in AddResults} :
             IF staged.raised
             THEN Atomic("create", branchName, "raised", Null, staged.cmds)
             ELSE Begin("create", branchName, "create_push", Null, staged.cmds)
    /\ UNCHANGED <<stack, nextSha, input, output>>

\* createDesktopStashEntry from its `git stash push` on
CreatePush ==
    /\ pc = "create_push"
    /\ LET message == createDesktopStashMessage(call.arg)
       IN \E o \in PushOutcomes :
            /\ o.saved => CanPush
            /\ stack' = IF o.saved THEN Pushed(message, "app") \o stack
                        ELSE stack
            /\ nextSha' = IF o.saved THEN nextSha + 1 ELSE nextSha
            /\ Return(Outcome(createAfterPush(o.result) = "raise"),
                      Append(cmds, Cmd("push", message)), o.result)
    /\ UNCHANGED <<input, output>>

\* dropDesktopStashEntry up to its `git stash drop`
DropLocate(stashSha) ==
    /\ pc = "idle"
    /\ \E stash \in {getStashes(GitLogStash(stack))} :
       \E entryToDelete \in {stashEntryMatchingSha(stash, stashSha)} :
          IF stash.raised
          THEN Atomic("drop", stashSha, "raised", Null, <<LogCmd>>)
          ELSE IF dropAfterLocate(entryToDelete) = Null
          THEN Atomic("drop", stashSha, "ok", Null, <<LogCmd>>)
          ELSE Begin("drop", stashSha, "drop_act", entryToDelete, <<LogCmd>>)
    /\ UNCHANGED <<stack, nextSha, input, output>>

\* dropDesktopStashEntry trying its `git stash drop` a second time when the
\* first attempt failed.
DropActRetrying ==
    /\ pc = "drop_act"
    /\ LET name == dropAfterLocate(entry)[1]
           i == Resolve(name, stack)
           issued == Append(cmds, Cmd("drop", name))
       IN \E o \in DropOutcomes(i) :
            /\ stack' = IF o.removed THEN RemoveAt(stack, i) ELSE stack
            /\ IF /\ Throws(o.result, DefaultSuccessExitCodes)
                  /\ \A k \in 1..Len(cmds) : cmds[k].cmd # "drop"
               THEN /\ cmds' = issued
                    /\ UNCHANGED <<pc, call, entry, before, interfered,
                                   last, prev>>
               ELSE Return(Outcome(Throws(o.result, DefaultSuccessExitCodes)),
                           issued,
                           IF call.op = "pop" THEN call.git ELSE o.result)
    /\ UNCHANGED <<nextSha, input, output>>

\* dropDesktopStashEntry from its `git stash drop` on, called by the
\* application or by popStashEntry
DropAct ==
    /\ pc = "drop_act"
    /\ LET name == dropAfterLocate(entry)[1]
           i == Resolve(name, stack)
       IN \E o \in DropOutcomes(i) :
            /\ stack' = IF o.removed THEN RemoveAt(stack, i) ELSE stack
            /\ Return(Outcome(Throws(o.result, DefaultSuccessExitCodes)),
                      Append(cmds, Cmd("drop", name)),
                      IF call.op = "pop" THEN call.git ELSE o.result)
    /\ UNCHANGED <<nextSha, input, output>>

\* popStashEntry up to its `git stash pop`
PopLocate(stashSha) ==
    /\ pc = "idle"
    /\ \E stash \in {getStashes(GitLogStash(stack))} :
       \E stashToPop \in {stashEntryMatchingSha(stash, stashSha)} :
          IF stash.raised
          THEN Atomic("pop", stashSha, "raised", Null, <<LogCmd>>)
          ELSE IF popAfterLocate(stashToPop) = Null
          THEN Atomic("pop", stashSha, "ok", Null, <<LogCmd>>)
          ELSE Begin("pop", stashSha, "pop_act", stashToPop, <<LogCmd>>)
    /\ UNCHANGED <<stack, nextSha, input, output>>

\* popStashEntry from its `git stash pop` to its return, its throw or its
\* call of dropDesktopStashEntry
PopAct ==
    /\ pc = "pop_act"
    /\ LET name == popAfterLocate(entry)[1]
           i == Resolve(name, stack)
           issued == Append(cmds, Cmd("pop", name))
       IN \E o \in PopOutcomes(i) :
            /\ stack' = IF o.removed THEN RemoveAt(stack, i) ELSE stack
            /\ CASE popAfterPop(o.result) = "return" ->
                       Return("ok", issued, o.result)
                 [] popAfterPop(o.result) = "raise" ->
                       Return("raised", issued, o.result)
                 [] OTHER ->
                       /\ pc' = "pop_drop"
                       /\ call' = [call EXCEPT !.git = o.result]
                       /\ cmds' = issued
                       /\ UNCHANGED <<entry, before, interfered, last, prev>>
    /\ UNCHANGED <<nextSha, input, output>>

\* The drop that popStashEntry calls going by the entry popStashEntry
\* located before its `git stash pop`, without a look at the store.
PopDropCached ==
    /\ pc = "pop_drop"
    /\ pc' = "drop_act"
    /\ UNCHANGED <<stack, nextSha, call, entry, cmds, before, interfered,
                   last, prev, input, output>>

\* the dropDesktopStashEntry that popStashEntry calls, up to its
\* `git stash drop`
PopDropLocate ==
    /\ pc = "pop_drop"
    /\ \E stash \in {getStashes(GitLogStash(stack))} :
       \E entryToDelete \in {stashEntryMatchingSha(stash, call.arg)} :
       LET issued == Append(cmds, LogCmd)
       IN IF stash.raised
          THEN Return("raised", issued, call.git)
          ELSE IF dropAfterLocate(entryToDelete) = Null
          THEN Return("ok", issued, call.git)
          ELSE /\ pc' = "drop_act"
               /\ entry' = entryToDelete
               /\ cmds' = issued
               /\ UNCHANGED <<call, before, interfered, last, prev>>
    /\ UNCHANGED <<stack, nextSha, input, output>>

(***************************************************************************)
(* Everybody else: other tools, the user, another call in flight           *)
(***************************************************************************)
Disturb ==
    /\ interfered' = (pc # "idle")
    /\ last' = NoLast
    /\ prev' = "none"
    /\ UNCHANGED <<pc, call, entry, cmds, before>>

ExtPush(msg) ==
    /\ CanPush
    /\ stack' = Pushed(msg, "other") \o stack
    /\ nextSha' = nextSha + 1
    /\ Disturb
    /\ UNCHANGED <<input, output>>

ExtDrop(i) ==
    /\ i \in 1..Len(stack)
    /\ stack' = RemoveAt(stack, i)
    /\ Disturb
    /\ UNCHANGED <<nextSha, input, output>>

Next ==
    \/ ListStashes
    \/ \E b \in BranchNames : FindForBranch(b)
    \/ \E b \in BranchNames : CreateStage(b)
    \/ CreatePush
    \/ \E h \in ShaArgs : DropLocate(h)
    \/ DropAct
    \/ \E h \in ShaArgs : PopLocate(h)
    \/ PopAct
    \/ PopDropLocate
    \/ \E m \in ForeignMessages : ExtPush(m)
    \/ \E i \in 1..MaxStack : ExtDrop(i)

Spec == Init /\ [][Next]_vars

(***************************************************************************)
(* The codec on its own: any message, any branch name                      *)
(***************************************************************************)
CodecAlphabet == {DesktopStashEntryMarker, "<", ">", "a", LS}

StoreUnused ==
    /\ stack = <<>> /\ nextSha = 1 /\ pc = "pure" /\ call = NoCall
    /\ entry = Null /\ cmds = <<>> /\ before = <<>> /\ interfered = FALSE
    /\ last = NoLast /\ prev = "none"

storeVars ==
    <<stack, nextSha, pc, call, entry, cmds, before, interfered, last, prev>>

InitCodec ==
    /\ StoreUnused
    /\ input \in SeqsUpTo(CodecAlphabet, MaxLen)
    /\ output = NoOutput

\* extractBranchFromMessage(input)
Decode ==
    /\ output.fn = "none"
    /\ output' = [NoOutput EXCEPT !.fn = "decode", !.message = input,
                     !.branchName = extractBranchFromMessage(input)]
    /\ UNCHANGED <<input, storeVars>>

\* extractBranchFromMessage(createDesktopStashMessage(input))
EncodeDecode ==
    /\ output.fn = "none"
    /\ LET message == createDesktopStashMessage(input)
       IN output' = [NoOutput EXCEPT !.fn = "roundtrip", !.message = message,
                       !.branchName = extractBranchFromMessage(message)]
    /\ UNCHANGED <<input, storeVars>>

\* getStashes of a store whose one entry has the subject `input`
ListOne ==
    /\ output.fn = "none"
    /\ LET s == <<[sha |-> 1, msg |-> input, by |-> "other"]>>
           stash == getStashes(GitLogStash(s))
       IN output' = [NoOutput EXCEPT !.fn = "list", !.message = input,
                       !.raised = stash.raised,
                       !.desktopEntries = stash.desktopEntries,
                       !.stashEntryCount = stash.stashEntryCount]
    /\ UNCHANGED <<input, storeVars>>

NextCodec == Decode \/ EncodeDecode \/ ListOne

SpecCodec == InitCodec /\ [][NextCodec]_vars

(***************************************************************************)
(* The lister on its own: any output of the reflog query                   *)
(***************************************************************************)
\* Raw records: well-formed (owned, foreign) and not (2, 4, 1 fields, none).
RawChunks ==
    {<<"stash@{0}", US, "c1", US>> \o createDesktopStashMessage(<<"a">>),
     <<"stash@{1}", US, "c2", US>>
         \o Subject(createDesktopStashMessage(<<"b">>)),
     <<"stash@{2}", US, "c3", US, "w">>,
     <<"stash@{0}", US, "c1">>,
     <<"stash@{0}", US, "c1", US>> \o createDesktopStashMessage(<<"a">>)
         \o <<US, "w">>,
     <<"w">>,
     <<>>}

RECURSIVE Terminated(_)
Terminated(n) ==
    IF n = 0 THEN {<<>>}
    ELSE LET shorter == Terminated(n - 1)
         IN shorter \cup {c \o <<NUL>> \o r : c \in RawChunks, r \in shorter}

Stdouts ==
    Terminated(MaxRecords)
        \cup {r \o c : r \in Terminated(MaxRecords - 1), c \in RawChunks}

InitParse ==
    /\ StoreUnused
    /\ input \in Stdouts
    /\ output = NoOutput

\* getStashes when the reflog query ends with exit code `code`
Parse(code) ==
    /\ output.fn = "none"
    /\ code = 128 => input = <<>>
    /\ LET stash == getStashes([exitCode |-> code, stdout |-> input,
                                stderr |-> <<>>])
       IN output' = [NoOutput EXCEPT !.fn = "parse", !.message = <<code>>,
                       !.raised = stash.raised,
                       !.desktopEntries = stash.desktopEntries,
                       !.stashEntryCount = stash.stashEntryCount]
    /\ UNCHANGED <<input, storeVars>>

NextParse == \E code \in {0, 1, 128} : Parse(code)

SpecParse == InitParse /\ [][NextParse]_vars

(***************************************************************************)
(* Properties                                                              *)
(***************************************************************************)
ShaOf(e) == <<ShaNames[e.sha]>>
AppEntries(s) == SelectSeq(s, LAMBDA e : e.by = "app")
OtherCount(s) == Cardinality({i \in 1..Len(s) : s[i].by = "other"})
HasCmd(issued, c) == \E k \in 1..Len(issued) : issued[k].cmd = c
OnStack(s, sha) == \E i \in 1..Len(s) : ShaOf(s[i]) = sha
OwnedOnStack(s, sha) ==
    \E i \in 1..Len(s) : ShaOf(s[i]) = sha /\ s[i].by = "app"
\* What a getStashes made now would report.
ReportedNow(sha) ==
    \E e \in {getStashes(GitLogStash(stack)).desktopEntries} :
        \E k \in 1..Len(e) : e[k].stashSha = sha
Listed == last.op = "list" /\ last.outcome = "ok"

\* C1: getStashes returns exactly the entries createDesktopStashEntry made
\* that are on the stack, the one made last first and the oldest last,
\* whatever other entries lie between them.
C1_ReverseCreationOrder ==
    Listed =>
        LET listed == last.value[1].desktopEntries
            made == AppEntries(last.before)
        IN /\ Len(listed) = Len(made)
           /\ \A i \in 1..Len(listed) : listed[i].stashSha = ShaOf(made[i])
           /\ \A i, j \in 1..Len(made) : i < j => made[i].sha > made[j].sha

C1_Witness ==
    /\ Listed
    /\ Len(last.value[1].desktopEntries) = 2
    /\ Len(last.before) = 3
    /\ last.before[2].by = "other"

\* C2: stashEntryCount minus the number of desktopEntries is the number of
\* entries on the stack that the application did not make.
C2_ForeignCount ==
    Listed =>
        last.value[1].stashEntryCount - Len(last.value[1].desktopEntries)
            = OtherCount(last.before)

\* C3: a popStashEntry that found its entry and returned without raising,
\* nobody else touching the store meanwhile, leaves no entry with that hash
\* on the stack; when `git stash pop` ended with exit code 1 and an empty
\* stderr it has issued `git stash drop` for the entry, which a getStashes
\* made next does not report.
C3_PopRemoves ==
    (/\ last.op = "pop" /\ last.outcome = "ok"
     /\ HasCmd(last.cmds, "pop") /\ ~last.interfered)
    => /\ ~OnStack(stack, last.arg)
       /\ ~ReportedNow(last.arg)
       /\ (last.git.exitCode = 1 /\ last.git.stderr = <<>>)
             => \E k \in 1..Len(last.cmds), i \in 1..Len(last.before) :
                   /\ ShaOf(last.before[i]) = last.arg
                   /\ last.cmds[k] = Cmd("drop", <<StashNames[i]>>)

C3_Witness ==
    /\ last.op = "pop" /\ last.outcome = "ok" /\ ~last.interfered
    /\ last.git.exitCode = 1 /\ last.git.stderr = <<>>
    /\ HasCmd(last.cmds, "drop")
    /\ OwnedOnStack(last.before, last.arg)
    /\ Len(stack) = 2

\* C4: when `git stash pop` ends with exit code 1 and something on stderr,
\* popStashEntry raises and issues no `git stash drop`; nobody else
\* touching the store meanwhile, a getStashes made next still reports the
\* entry.
C4_PopHardFailure ==
    (/\ last.op = "pop" /\ HasCmd(last.cmds, "pop")
     /\ last.git.exitCode = 1 /\ Len(last.git.stderr) > 0)
    => /\ last.outcome = "raised"
       /\ ~HasCmd(last.cmds, "drop")
       /\ ~last.interfered => ReportedNow(last.arg)

C4_Witness ==
    /\ last.op = "pop" /\ HasCmd(last.cmds, "pop") /\ ~last.interfered
    /\ last.git.exitCode = 1 /\ Len(last.git.stderr) > 0
    /\ last.outcome = "raised"
    /\ ReportedNow(last.arg)

\* The second of two dropDesktopStashEntry of one hash is a no-op: it
\* returns without raising, issues no `git stash drop` and leaves the stack
\* as it found it.
SecondDropIsNoOp ==
    /\ last.outcome = "ok"
    /\ ~HasCmd(last.cmds, "drop")
    /\ stack = last.before

C6_NoMatchNoOp ==
    (/\ last.op \in {"drop", "pop"}
     /\ ~OwnedOnStack(last.before, last.arg))
    => /\ last.outcome = "ok"
       /\ ~HasCmd(last.cmds, "drop") /\ ~HasCmd(last.cmds, "pop")
       /\ stack = last.before

C6_Witness ==
    /\ last.op = "pop"
    /\ OnStack(last.before, last.arg)
    /\ ~OwnedOnStack(last.before, last.arg)
    /\ AppEntries(stack) # <<>>

\* C7: with no stash in the store the reflog query ends with exit code 128
\* and getStashes returns, without raising, no entries and a count of 0.
C7_EmptyStore ==
    (last.op = "list" /\ last.before = <<>>)
    => /\ last.outcome = "ok"
       /\ last.value[1].desktopEntries = <<>>
       /\ last.value[1].stashEntryCount = 0

C7_Witness ==
    /\ last.op = "list" /\ last.before = <<>> /\ nextSha > 1

\* The number of raw records in a reflog output: the maximal runs of
\* characters other than NUL.
RawCount(stdout) ==
    Cardinality({i \in 1..Len(stdout) :
                    /\ stdout[i] # NUL
                    /\ (i = 1 \/ stdout[i - 1] = NUL)})

C9_RoundTrip ==
    (/\ output.fn = "roundtrip" /\ input # <<>>
     /\ \A i \in 1..Len(input) : input[i] # ">")
    => output.branchName = Some(input)

\* The message is p `!!GitHub_Desktop<` x `>` for some p and x, x of at
\* least n characters.
EndsWithMarker(message, n) ==
    \E x \in n..Len(message) :
        /\ Len(message) >= x + 3
        /\ message[Len(message)] = ">"
        /\ message[Len(message) - x - 1] = "<"
        /\ message[Len(message) - x - 2] = DesktopStashEntryMarker

\* The message matches the marker pattern with a branch name that is not
\* empty: a name of the pattern's `.`, which is any character that ends
\* no line.
MatchesMarkerPattern(message) ==
    \E x \in 1..Len(message) :
        /\ Len(message) >= x + 3
        /\ message[Len(message)] = ">"
        /\ message[Len(message) - x - 1] = "<"
        /\ message[Len(message) - x - 2] = DesktopStashEntryMarker
        /\ \A k \in (Len(message) - x)..(Len(message) - 1) :
              message[k] \notin LineTerminators

\* C10: extractBranchFromMessage returns null for a message that does not
\* end with `!!GitHub_Desktop<...>` and for the message made of the empty
\* branch name; getStashes lists an entry exactly when its message matches
\* the marker pattern with a branch name that is not empty.
C10_DecodeAbsentAndOwnership ==
    /\ (output.fn = "decode" /\ ~EndsWithMarker(input, 0))
          => output.branchName = Null
    /\ (output.fn = "roundtrip" /\ input = <<>>)
          => output.branchName = Null
    /\ output.fn = "list"
          => (output.desktopEntries # <<>> <=> MatchesMarkerPattern(input))
    /\ (output.fn = "list" /\ output.desktopEntries # <<>>)
          => output.desktopEntries[1].branchName # <<>>

C10_Witness ==
    /\ output.fn = "list"
    /\ input = <<"a", DesktopStashEntryMarker, "<", "a", ">">>
    /\ Len(output.desktopEntries) = 1
    /\ output.desktopEntries[1].branchName = <<"a">>

\* C11: when createDesktopStashEntry for a branch returned true and
\* getLastDesktopStashEntryForBranch for that branch is the next thing to
\* touch the store, it returns an entry, not null, whose branchName is that
\* branch.
C11_CreateThenFind ==
    (last.op = "find" /\ prev = "ok")
    => /\ last.outcome = "ok"
       /\ last.value # Null
       /\ last.value[1] # Null
       /\ last.value[1][1].branchName = last.arg

\* The positions of the stack that hold a stash createDesktopStashEntry
\* made for the branch.
OwnedFor(s, branchName) ==
    {i \in 1..Len(s) :
        /\ s[i].by = "app"
        /\ s[i].msg = <<OnBranch, DesktopStashEntryMarker, "<">>
                         \o branchName \o <<">">>}

\* C12: getLastDesktopStashEntryForBranch returns the application's stash
\* of the branch that was created last, the one at the smallest position,
\* whatever foreign stashes or stashes of other branches lie above it, and
\* null exactly when the store holds no application stash of the branch.
C12_FindNewestForBranch ==
    (last.op = "find" /\ last.outcome = "ok")
    => LET hits == OwnedFor(last.before, last.arg)
           found == last.value[1]
       IN /\ found = Null <=> hits = {}
          /\ found # Null =>
               /\ found[1].name = <<StashNames[Min(hits)]>>
               /\ found[1].stashSha = ShaOf(last.before[Min(hits)])
               /\ found[1].branchName = last.arg
               /\ \A i \in hits :
                     last.before[i].sha <= last.before[Min(hits)].sha

C12_Witness ==
    /\ last.op = "find" /\ last.outcome = "ok"
    /\ Len(last.before) = 3
    /\ OwnedFor(last.before, last.arg) = {2, 3}
    /\ last.value[1] # Null
    /\ last.value[1][1].name = <<StashNames[2]>>

\* Some line of the text begins with `error: `.
HasErrorLine(text) ==
    LET lines == split(text, LF)
    IN \E k \in 1..Len(lines) : lines[k] # <<>> /\ lines[k][1] = ErrorTag

\* C13: createDesktopStashEntry returns true when its `git stash push`
\* exits 0; when it exits 1, the call throws exactly when some line of
\* stderr begins with `error: `, and returns true otherwise, also when
\* stderr holds warnings only.
C13_CreateClassifiesExit ==
    (last.op = "create" /\ HasCmd(last.cmds, "push"))
    => /\ last.git.exitCode = 0 => last.outcome = "ok"
       /\ last.git.exitCode = 1
             => (last.outcome = "raised" <=> HasErrorLine(last.git.stderr))
       /\ (last.git.exitCode = 1 /\ ~HasErrorLine(last.git.stderr))
             => last.outcome = "ok"

C13_Witness ==
    /\ last.op = "create" /\ HasCmd(last.cmds, "push")
    /\ last.git.exitCode = 1
    /\ last.git.stderr = <<"warning: ", ErrorTag>>
    /\ last.outcome = "ok"

\* How many times the command was issued.
Count(issued, c) == Cardinality({k \in 1..Len(issued) : issued[k].cmd = c})

\* The command was issued and nothing was issued after it.
IssuedLast(issued, c) == issued # <<>> /\ issued[Len(issued)].cmd = c

\* git refused the push, the pop: the answers the code turns into a throw.
PushRefused(result) ==
    \/ result.exitCode \notin {0, 1}
    \/ result.exitCode = 1 /\ HasErrorLine(result.stderr)
PopRefused(result) ==
    \/ result.exitCode \notin {0, 1}
    \/ result.exitCode = 1 /\ result.stderr # <<>>

\* C14: no call tries anything twice.  A call of createDesktopStashEntry,
\* dropDesktopStashEntry or popStashEntry issues `git stash push`, `git
\* stash drop` and `git stash pop` at most once each, while it runs and
\* when it has returned; and when git refuses one of them the call throws
\* and that command is the last one it issued.
C14_NoRetry ==
    /\ \A c \in {"push", "drop", "pop"} :
          Count(cmds, c) <= 1 /\ Count(last.cmds, c) <= 1
    /\ (last.op = "create" /\ HasCmd(last.cmds, "push")
           /\ PushRefused(last.git))
          => last.outcome = "raised" /\ IssuedLast(last.cmds, "push")
    /\ (last.op = "drop" /\ HasCmd(last.cmds, "drop")
           /\ last.git.exitCode # 0)
          => last.outcome = "raised" /\ IssuedLast(last.cmds, "drop")
    /\ (last.op = "pop" /\ HasCmd(last.cmds, "pop") /\ PopRefused(last.git))
          => last.outcome = "raised" /\ IssuedLast(last.cmds, "pop")
    /\ (last.op = "pop" /\ last.outcome = "raised"
           /\ HasCmd(last.cmds, "drop"))
          => IssuedLast(last.cmds, "drop")

C14_Witness ==
    /\ last.op = "pop" /\ last.outcome = "raised"
    /\ last.git.exitCode = 1 /\ last.git.stderr = <<>>
    /\ Len(last.cmds) = 4
    /\ Count(last.cmds, "pop") = 1
    /\ IssuedLast(last.cmds, "drop")

\* C15: whatever others do to the store between the locate step and the
\* act step of dropDesktopStashEntry and popStashEntry, the `git stash
\* drop` or `git stash pop` the call issues takes from the stack no entry
\* but the one with the hash the call was given.
C15_ActsOnLocatedHash ==
    [][(pc \in {"drop_act", "pop_act"} /\ pc' # pc)
          => \A i \in 1..Len(stack) :
                (\A j \in 1..Len(stack') : stack'[j] # stack[i])
                   => ShaOf(stack[i]) = call.arg]_vars

\* Where the raw records of a reflog output start, and the record that
\* starts there: the characters up to the next NUL.
RecordStarts(stdout) ==
    {i \in 1..Len(stdout) :
        stdout[i] # NUL /\ (i = 1 \/ stdout[i - 1] = NUL)}
RecordAt(stdout, i) ==
    SubSeq(stdout, i,
           Min({j \in i..Len(stdout) : stdout[j] = NUL}
                  \cup {Len(stdout) + 1}) - 1)

\* The record has exactly three fields, and the three fields.
Separators(record) == {k \in 1..Len(record) : record[k] = US}
ThreeFields(record) == Cardinality(Separators(record)) = 2
FirstField(record) == SubSeq(record, 1, Min(Separators(record)) - 1)
ThirdField(record) ==
    LET k == CHOOSE k \in Separators(record) : k # Min(Separators(record))
    IN SubSeq(record, k + 1, Len(record))
SecondField(record) ==
    SubSeq(record, Min(Separators(record)) + 1,
           Len(record) - Len(ThirdField(record)) - 1)

\* The record is well formed and its subject names a branch.
OwnedRecord(record) ==
    /\ ThreeFields(record)
    /\ extractBranchFromMessage(ThirdField(record)) # Null
    /\ extractBranchFromMessage(ThirdField(record))[1] # <<>>

\* C16: for every output of a successful reflog query, desktopEntries is
\* the records with exactly three fields whose subject decodes to a branch
\* name that is not empty, in the order of the output, each with its
\* record's name, hash and branch; every other record is left out and
\* nothing is raised.
C16_OwnedSubsequence ==
    (output.fn = "parse" /\ output.message = <<0>>)
    => LET good == {i \in RecordStarts(input) :
                       OwnedRecord(RecordAt(input, i))}
           entries == output.desktopEntries
       IN /\ ~output.raised
          /\ Len(entries) = Cardinality(good)
          /\ \A i \in good :
                LET k == Cardinality({j \in good : j <= i})
                    record == RecordAt(input, i)
                IN entries[k] =
                      [name |-> FirstField(record),
                       branchName |->
                           extractBranchFromMessage(ThirdField(record))[1],
                       stashSha |-> SecondField(record)]

C16_Witness ==
    /\ output.fn = "parse" /\ output.message = <<0>>
    /\ Cardinality(RecordStarts(input)) = 3
    /\ \E i \in RecordStarts(input) :
          Cardinality(Separators(RecordAt(input, i))) = 3
    /\ Len(output.desktopEntries) = 2
    /\ output.desktopEntries[1].branchName = <<"a">>
    /\ output.desktopEntries[2].branchName = <<"b">>

\* C17: a dropDesktopStashEntry of the hash of a stash the application
\* made, with nobody else touching the store meanwhile, takes exactly that
\* stash from the stack when it returns: the stack is one shorter, the
\* entries above it are where they were, those below it are one position
\* up, each entry the same as before.  When git refuses the drop and the
\* call throws, the stack is as it was.
C17_DropFrame ==
    (last.op = "drop" /\ ~last.interfered
        /\ OwnedOnStack(last.before, last.arg))
    => LET i == CHOOSE i \in 1..Len(last.before) :
                    ShaOf(last.before[i]) = last.arg
       IN /\ last.outcome = "ok" =>
               /\ Len(stack) = Len(last.before) - 1
               /\ \A j \in 1..(i - 1) : stack[j] = last.before[j]
               /\ \A j \in (i + 1)..Len(last.before) :
                     stack[j - 1] = last.before[j]
               /\ ~OnStack(stack, last.arg)
          /\ last.outcome = "raised" => stack = last.before

C17_Witness ==
    /\ last.op = "drop" /\ last.outcome = "ok" /\ ~last.interfered
    /\ Len(last.before) = 3
    /\ OwnedOnStack(last.before, last.arg)
    /\ ShaOf(last.before[2]) = last.arg
    /\ stack = <<last.before[1], last.before[3]>>

\* C18: the dropDesktopStashEntry that popStashEntry calls after a `git
\* stash pop` with exit code 1 and nothing on stderr looks the hash up
\* again.  When the store holds no entry of that hash any more, it issues
\* no `git stash drop`, the call returns, and the stack, with the entry
\* that moved into the old position, stays as it is; and when it does
\* issue its `git stash drop`, nobody else having touched the store during
\* the call, no entry but the one of that hash leaves the stack.
C18_CompensatingDropResolvesAgain ==
    [][/\ (pc = "pop_drop" /\ pc' # pc /\ ~OnStack(stack, call.arg))
             => /\ stack' = stack
                /\ pc' = "idle"
                /\ last'.op = "pop" /\ last'.outcome = "ok"
                /\ last'.cmds = Append(cmds, LogCmd)
       /\ (pc = "drop_act" /\ pc' # pc /\ call.op = "pop" /\ ~interfered)
             => \A i \in 1..Len(stack) :
                   (\A j \in 1..Len(stack') : stack'[j] # stack[i])
                      => ShaOf(stack[i]) = call.arg]_vars

C18_Witness ==
    /\ last.op = "pop" /\ last.outcome = "ok" /\ last.interfered
    /\ last.git.exitCode = 1 /\ last.git.stderr = <<>>
    /\ last.cmds = <<LogCmd, Cmd("pop", <<StashNames[1]>>), LogCmd>>
    /\ Len(last.before) >= 2
    /\ ShaOf(last.before[1]) = last.arg
    /\ stack = Tail(last.before)

\* C19: the stashEntryCount that getStashes returns is never negative,
\* whatever a reflog query that succeeded printed, nothing at all included.
C19_CountNotNegative ==
    (output.fn = "parse" /\ ~output.raised) => output.stashEntryCount >= 0

\* C20: getStashes and getLastDesktopStashEntryForBranch leave the store
\* alone: the reflog query is the one command they issue, and when they
\* have returned the stack holds the entries it held when they began, in
\* the same order, with the same hashes and messages.
C20_ReadsLeaveStore ==
    last.op \in {"list", "find"}
    => /\ last.cmds = <<LogCmd>>
       /\ stack = last.before
       /\ pc = "idle"

C20_Witness ==
    /\ last.op = "find" /\ last.outcome = "ok"
    /\ last.value[1] # Null
    /\ last.cmds = <<LogCmd>>
    /\ Len(stack) = 3
    /\ stack = last.before

====
